---- MODULE Spec2Model ----
(***************************************************************************)
(* Model of migrate_github_repos.py: the local repository scanner          *)
(* (GitHubRepoScanner) and the fork migrator (GitHubRepoMigrator).         *)
(* Strings that the code parses are sequences of one-character strings;    *)
(* identities that the code only compares are TLA+ strings.                *)
(***************************************************************************)
EXTENDS Integers, Sequences, FiniteSets, TLC

VARIABLES
    \* ---- parse_github_url harness
    url,              \* the argument of parse_github_url
    url_src,          \* how the argument was built (kind, owner, name, suffix)
    repo_info,        \* the value returned, or "unset" before the call
    \* ---- GitHubRepoScanner.scan_directory
    fs,               \* the directory tree: what each directory holds
    walk,             \* os.walk's pending directories, next to visit first
    visited,          \* directories os.walk has yielded so far, in order
    local_repos,      \* self.local_repos: full_name -> record
    scan_pc,          \* "walking" | "returned" | "idle"
    \* ---- GitHubRepoMigrator.migrate_repositories
    listing,          \* what `gh repo list` answers: "error" or a sequence of records
    local_repo_names, \* keys of the local_repos argument
    dry_run,          \* the dry_run argument
    forked_repos,     \* result of get_forked_repositories
    repos_to_migrate, \* candidates, in listing order
    repos_skipped,    \* nameWithOwner of the forks found locally
    confirm,          \* "unasked" or the line typed at the prompt
    idx,              \* position of the replay loop in repos_to_migrate
    successful,       \* local counter of migrate_repositories
    failed,           \* local counter of migrate_repositories
    gh_calls,         \* every gh command run so far, in order
    pc                \* position of migrate_repositories

vars == <<url, url_src, repo_info, fs, walk, visited, local_repos, scan_pc,
          listing, local_repo_names, dry_run, forked_repos, repos_to_migrate,
          repos_skipped, confirm, idx, successful, failed, gh_calls, pc>>

parseVars == <<url, url_src, repo_info>>
scanVars == <<fs, walk, visited, local_repos, scan_pc>>
migrateVars == <<listing, local_repo_names, dry_run, forked_repos,
                 repos_to_migrate, repos_skipped, confirm, idx, successful,
                 failed, gh_calls, pc>>

\* Python's None, where a string is expected: no string of characters equals it.
None == <<"None">>

\* Python's None, where parse_github_url's dictionary is expected.
NoInfo == [owner |-> None, repo |-> None, full_name |-> None]

\* repo_info before parse_github_url has been called.
Unset == [owner |-> <<"unset">>, repo |-> <<"unset">>, full_name |-> <<"unset">>]

----------------------------------------------------------------------------
(* Text helpers                                                            *)

HasPrefix(s, p) == Len(s) >= Len(p) /\ SubSeq(s, 1, Len(p)) = p

EndsWith(s, x) == Len(s) >= Len(x) /\ SubSeq(s, Len(s) - Len(x) + 1, Len(s)) = x

Slash == <<"/">>

SshPrefix == <<"g", "i", "t", "@", "g", "i", "t", "h", "u", "b", ".", "c", "o", "m", ":">>

HttpsPrefix == <<"h", "t", "t", "p", "s", ":", "/", "/", "g", "i", "t", "h", "u", "b", ".", "c", "o", "m", "/">>

DotGit == <<".", "g", "i", "t">>

GitlabPrefix == <<"h", "t", "t", "p", "s", ":", "/", "/", "g", "i", "t", "l", "a", "b", ".", "c", "o", "m", "/">>

HttpPrefix == <<"h", "t", "t", "p", ":", "/", "/", "g", "i", "t", "h", "u", "b", ".", "c", "o", "m", "/">>

SshSchemePrefix == <<"s", "s", "h", ":", "/", "/", "g", "i", "t", "@", "g", "i", "t", "h", "u", "b", ".", "c", "o", "m", "/">>

LocalPrefix == <<"/", "s", "r", "v", "/", "g", "i", "t", "/">>

----------------------------------------------------------------------------
(* GitHubRepoScanner.parse_github_url                                      *)

\* '$' of the regular expression: the end of the string, or just before a
\* newline that ends the string.
AtEnd(s) == s = <<>> \/ s = <<"\n">>

\* '.' of the regular expression matches any character but a newline.
NoNewline(s) == \A i \in 1..Len(s) : s[i] # "\n"

\* The lengths k the group (.+?) can take in tail so that (?:\.git)?$
\* matches what follows it.
RepoLengths(tail) ==
    {k \in 1..Len(tail) :
        /\ NoNewline(SubSeq(tail, 1, k))
        /\ LET after == SubSeq(tail, k + 1, Len(tail))
           IN  \/ AtEnd(after)
               \/ /\ HasPrefix(after, DotGit)
                  /\ AtEnd(SubSeq(after, Len(DotGit) + 1, Len(after)))}

Min(S) == CHOOSE k \in S : \A j \in S : k <= j

Max(S) == CHOOSE k \in S : \A j \in S : k >= j

\* Mutant of RepoGroup: a greedy group (.+) keeps the '.git' suffix.
RepoGroupGreedy(tail) ==
    IF RepoLengths(tail) = {} THEN None
    ELSE SubSeq(tail, 1, Max(RepoLengths(tail)))

\* (.+?)(?:\.git)?$ applied to what follows 'owner/': the lazy group takes
\* the shortest text that lets the rest of the pattern match.
RepoGroup(tail) ==
    IF RepoLengths(tail) = {} THEN None
    ELSE SubSeq(tail, 1, Min(RepoLengths(tail)))

\* re.match of  prefix([^/]+)/(.+?)(?:\.git)?$  against u.
MatchPattern(prefix, u) ==
    IF ~HasPrefix(u, prefix) THEN NoInfo
    ELSE LET rest == SubSeq(u, Len(prefix) + 1, Len(u))
             slashes == {i \in 1..Len(rest) : rest[i] = "/"}
         IN  IF slashes = {} \/ Min(slashes) = 1 THEN NoInfo
             ELSE LET s == Min(slashes)
                      owner == SubSeq(rest, 1, s - 1)
                      repo == RepoGroup(SubSeq(rest, s + 1, Len(rest)))
                  IN  IF repo = None THEN NoInfo
                      ELSE [owner |-> owner, repo |-> repo,
                            full_name |-> owner \o Slash \o repo]

parse_github_url(u) ==
    IF u = <<>> THEN NoInfo
    ELSE IF MatchPattern(SshPrefix, u) # NoInfo THEN MatchPattern(SshPrefix, u)
    ELSE MatchPattern(HttpsPrefix, u)

----------------------------------------------------------------------------
(* Inputs of the parse_github_url harness                                  *)

MaxNameParts == 2

NamePieces == {<<"w">>, <<".">>, <<"g", "i", "t">>, DotGit}

RECURSIVE NamesOf(_)
NamesOf(n) ==
    IF n = 0 THEN {<<>>}
    ELSE NamesOf(n - 1) \cup {a \o p : a \in NamesOf(n - 1), p \in NamePieces}

RepoNames == NamesOf(MaxNameParts) \ {<<>>}

Owners == {<<"a", "c", "m", "e">>, <<"o", "-", "1">>}

Widget == <<"w", "i", "d", "g", "e", "t">>

AcmeWidgetGit == <<"a", "c", "m", "e">> \o Slash \o Widget \o DotGit

OtherUrls ==
    { <<>>,
      GitlabPrefix \o AcmeWidgetGit,
      LocalPrefix \o Widget,
      HttpPrefix \o AcmeWidgetGit,
      SshSchemePrefix \o AcmeWidgetGit,
      HttpsPrefix \o <<"a", "c", "m", "e">>,
      SshPrefix \o Slash \o Widget }

BuildUrl(src) ==
    IF src.kind = "other" THEN src.text
    ELSE (IF src.kind = "ssh" THEN SshPrefix ELSE HttpsPrefix)
         \o src.owner \o Slash \o src.name
         \o (IF src.git THEN DotGit ELSE <<>>)

UrlSources ==
    [kind : {"ssh", "https"}, owner : Owners, name : RepoNames, git : BOOLEAN]
    \cup [kind : {"other"}, text : OtherUrls]

----------------------------------------------------------------------------
(* The directory tree scan_directory walks                                 *)

\* A directory is the sequence of names leading to it from base_path; a
\* name is a sequence of characters.
DirA == <<"a">>
DirB == <<"b">>
DirC == <<"c">>
DirD == <<"d">>
DirE == <<"e">>
DirHidden == <<".", "h">>

AllDirs ==
    << <<>>,
       <<DirA>>,
       <<DirD>>,
       <<DirA, DirB>>,
       <<DirHidden>>,
       <<DirA, DirB, DirC>>,
       <<DirHidden, DirE>>,
       <<DirD, DirE>> >>

MaxDirs == 5

NumDirs == IF MaxDirs < Len(AllDirs) THEN MaxDirs ELSE Len(AllDirs)

Dirs == {AllDirs[i] : i \in 1..NumDirs}

\* What `git remote get-url origin` answers in a repository: None when git
\* exits with an error, else the configured URL.
RemoteUrls ==
    { SshPrefix \o <<"a", "c", "m", "e">> \o Slash \o <<"w">> \o DotGit,
      HttpsPrefix \o <<"a", "c", "m", "e">> \o Slash \o <<"w">>,
      HttpsPrefix \o <<"o", "-", "1">> \o Slash \o <<"g", "i", "t">> \o DotGit,
      GitlabPrefix \o AcmeWidgetGit }

DirStates ==
    {[git |-> FALSE, remote |-> None]}
    \cup [git : {TRUE}, remote : RemoteUrls \cup {None}]

IsProperPrefix(p, q) == Len(p) < Len(q) /\ SubSeq(q, 1, Len(p)) = p

\* Names of the subdirectories os.walk lists for directory d, the '.git'
\* directory included.
SubdirNames(d) ==
    {q[Len(q)] : q \in {x \in Dirs : Len(x) = Len(d) + 1 /\ IsProperPrefix(d, x)}}
    \cup (IF d \in DOMAIN fs /\ fs[d].git THEN {DotGit} ELSE {})

\* Path(root) / '.git' exists
is_git_repository(d) == d \in DOMAIN fs /\ fs[d].git

\* git -C d remote get-url origin
get_remote_url(d) == fs[d].remote

\* d.startswith('.')
StartsWithDot(name) == Len(name) > 0 /\ name[1] = "."

\* dirs[:] = [d for d in dirs if not d.startswith('.') or d == '.git']
KeptDirs(names) == {n \in names : ~StartsWithDot(n) \/ n = DotGit}

\* Mutant of PrunedDirs: the walk descends into repository roots.
PrunedDirsNoClear(d, names) == names

\* dirs.clear() when root is a repository
PrunedDirs(d, names) == IF is_git_repository(d) THEN {} ELSE names

\* Mutant of StoreRecord: the first record found for an identity is kept.
StoreRecordKeepFirst(map, key, rec) ==
    [k \in DOMAIN map \cup {key} |-> IF k \in DOMAIN map THEN map[k] ELSE rec]

\* self.local_repos[full_name] = {...}
StoreRecord(map, key, rec) ==
    [k \in DOMAIN map \cup {key} |-> IF k = key THEN rec ELSE map[k]]

\* The body of the loop of scan_directory for one directory: the mapping
\* after it.
ReposAfterVisit(d) ==
    IF ~is_git_repository(d) THEN local_repos
    ELSE LET remote_url == get_remote_url(d)
         IN  IF remote_url = None \/ remote_url = <<>> THEN local_repos
             ELSE LET info == parse_github_url(remote_url)
                  IN  IF info = NoInfo THEN local_repos
                      ELSE StoreRecord(local_repos, info.full_name,
                                       [path |-> d, owner |-> info.owner,
                                        repo |-> info.repo, url |-> remote_url])

\* The orders in which the file system may list a set of names.
Orderings(S) ==
    {f \in [1..Cardinality(S) -> S] : \A i, j \in 1..Cardinality(S) : f[i] = f[j] => i = j}

EmptyMap == [k \in {} |-> [path |-> <<>>, owner |-> <<>>, repo |-> <<>>, url |-> <<>>]]

InitScan ==
    /\ fs \in [Dirs -> DirStates]
    /\ walk = << <<>> >>
    /\ visited = <<>>
    /\ local_repos = EmptyMap
    /\ scan_pc = "walking"

\* One iteration of `for root, dirs, _ in os.walk(self.base_path)`.
ScanVisit ==
    /\ scan_pc = "walking"
    /\ walk # <<>>
    /\ LET d == Head(walk)
           dirs == PrunedDirs(d, KeptDirs(SubdirNames(d)))
       IN  /\ local_repos' = ReposAfterVisit(d)
           /\ visited' = Append(visited, d)
           /\ \E order \in Orderings(dirs) :
                 walk' = [i \in 1..Len(order) |-> Append(d, order[i])] \o Tail(walk)
    /\ UNCHANGED <<fs, scan_pc>>

\* os.walk is exhausted: scan_directory returns self.local_repos.
ScanReturn ==
    /\ scan_pc = "walking"
    /\ walk = <<>>
    /\ scan_pc' = "returned"
    /\ UNCHANGED <<fs, walk, visited, local_repos>>

----------------------------------------------------------------------------
(* GitHubRepoMigrator                                                      *)

\* An identity 'owner/name' is the pair <<owner, name>>; neither part holds
\* a '/'.
SourceUser == "alice"

UpstreamUser == "up"

AllLeafs == <<"a", "b", "c", "d", "e">>

MaxForks == 3

NumLeafs == IF MaxForks < Len(AllLeafs) THEN MaxForks ELSE Len(AllLeafs)

Leafs == {AllLeafs[i] : i \in 1..NumLeafs}

\* The 'parent' field of a listed repository: the key may be missing, its
\* value may be null, or it is an object that names the parent.
Parents(leaf) ==
    { [kind |-> "absent", nameWithOwner |-> <<>>],
      [kind |-> "null", nameWithOwner |-> <<>>],
      [kind |-> "object", nameWithOwner |-> <<UpstreamUser, leaf>>] }

ForkRecords ==
    UNION {[nameWithOwner : {<<SourceUser, leaf>>}, parent : Parents(leaf)] : leaf \in Leafs}

\* The listings `gh repo list` can print: no repository is listed twice.
Listings ==
    {s \in UNION {[1..n -> ForkRecords] : n \in 0..MaxForks} :
        \A i, j \in 1..Len(s) : s[i].nameWithOwner = s[j].nameWithOwner => i = j}

LocalKeySets == SUBSET {<<SourceUser, "b">>, <<UpstreamUser, "a">>, <<"bob", "c">>}

\* What a gh command can do: exit with an error, or exit with success having
\* written nothing or something to its standard output.
GhOutcomes == {"error", "empty", "text"}

\* The lines a user can type at the prompt.
Responses == {"y", "Y", "n", "", "yes"}

\* str.lower()
Lower(r) == CASE r = "Y" -> "y" [] OTHER -> r

\* Mutant of Cancelled: only an explicit 'n' cancels.
CancelledOnlyOnNo(r) == Lower(r) = "n"

\* confirm.lower() != 'y'
Cancelled(r) == Lower(r) # "y"

\* run_gh_command: None on CalledProcessError, else result.stdout
run_gh_command(outcome) == IF outcome = "error" THEN "None" ELSE outcome

\* `if output:` -- None and the empty string are both falsy
Truthy(output) == output # "None" /\ output # "empty"

\* repo_full_name.split('/')[-1]
LeafName(repo_full_name) == repo_full_name[Len(repo_full_name)]

\* Mutant of fork_repository: the dry_run flag is not honoured.
fork_repository_always(repo_full_name, dry, outcome) ==
    [cmds |-> <<[cmd |-> "fork", repo |-> repo_full_name,
                 fork_name |-> LeafName(repo_full_name),
                 token |-> "target", outcome |-> outcome]>>,
     ret |-> Truthy(run_gh_command(outcome))]

\* fork_repository: the gh commands it runs and the boolean it returns, given
\* what the command does when it is run.
fork_repository(repo_full_name, dry, outcome) ==
    IF dry THEN [cmds |-> <<>>, ret |-> TRUE]
    ELSE [cmds |-> <<[cmd |-> "fork", repo |-> repo_full_name,
                      fork_name |-> LeafName(repo_full_name),
                      token |-> "target", outcome |-> outcome]>>,
          ret |-> Truthy(run_gh_command(outcome))]

\* Mutant of InLocal: forks are matched by repository name alone.
InLocalByName(repo_name, names) == \E n \in names : n[2] = repo_name[2]

\* repo_name in local_repo_names
InLocal(repo_name, names) == repo_name \in names

\* The filter loop of migrate_repositories over forks[i..], appending to the
\* two lists.
RECURSIVE FilterLoop(_, _, _, _, _)
FilterLoop(forks, i, names, to_migrate, skipped) ==
    IF i > Len(forks) THEN [to_migrate |-> to_migrate, skipped |-> skipped]
    ELSE IF InLocal(forks[i].nameWithOwner, names)
         THEN FilterLoop(forks, i + 1, names, to_migrate,
                         Append(skipped, forks[i].nameWithOwner))
         ELSE FilterLoop(forks, i + 1, names, Append(to_migrate, forks[i]), skipped)

\* repo.get('parent', {}).get('nameWithOwner'): the name, None when the key
\* is missing, and an AttributeError when the value is null.
ParentRepo(repo) ==
    CASE repo.parent.kind = "absent" -> <<>>
      [] repo.parent.kind = "null" -> <<"AttributeError">>
      [] OTHER -> repo.parent.nameWithOwner

ListCall(outcome) ==
    [cmd |-> "list", repo |-> <<SourceUser>>, fork_name |-> "",
     token |-> "source", outcome |-> outcome]

InitMigrate ==
    /\ listing \in [ok : {TRUE}, repos : Listings] \cup {[ok |-> FALSE, repos |-> <<>>]}
    /\ local_repo_names \in LocalKeySets
    /\ dry_run \in BOOLEAN
    /\ forked_repos = <<>>
    /\ repos_to_migrate = <<>>
    /\ repos_skipped = <<>>
    /\ confirm = "unasked"
    /\ idx = 1
    /\ successful = 0
    /\ failed = 0
    /\ gh_calls = <<>>
    /\ pc = "start"

\* migrate_repositories from its entry to the first point where it returns
\* or waits: the listing, the filter loop and the summary.
GetForks ==
    /\ pc = "start"
    /\ LET forks == IF listing.ok THEN listing.repos ELSE <<>>
           parts == FilterLoop(forks, 1, local_repo_names, <<>>, <<>>)
       IN  /\ gh_calls' = Append(gh_calls, ListCall(IF listing.ok THEN "text" ELSE "error"))
           /\ forked_repos' = forks
           /\ IF forks = <<>>
              THEN /\ pc' = "no_forks"
                   /\ UNCHANGED <<repos_to_migrate, repos_skipped>>
              ELSE /\ repos_to_migrate' = parts.to_migrate
                   /\ repos_skipped' = parts.skipped
                   /\ pc' = IF parts.to_migrate = <<>> THEN "nothing_to_migrate"
                            ELSE IF dry_run THEN "migrating" ELSE "confirm"
    /\ UNCHANGED <<listing, local_repo_names, dry_run, confirm, idx, successful, failed>>

\* confirm = input("Continue? [y/N]: ")
Confirm ==
    /\ pc = "confirm"
    /\ \E r \in Responses :
          /\ confirm' = r
          /\ pc' = IF Cancelled(r) THEN "cancelled" ELSE "migrating"
    /\ UNCHANGED <<listing, local_repo_names, dry_run, forked_repos, repos_to_migrate,
                   repos_skipped, idx, successful, failed, gh_calls>>

\* One iteration of the replay loop for a candidate whose parent is named.
ForkCandidate ==
    /\ pc = "migrating"
    /\ idx <= Len(repos_to_migrate)
    /\ repos_to_migrate[idx].parent.kind = "object"
    /\ \E outcome \in GhOutcomes :
          LET r == fork_repository(ParentRepo(repos_to_migrate[idx]), dry_run, outcome)
          IN  /\ gh_calls' = gh_calls \o r.cmds
              /\ successful' = IF r.ret THEN successful + 1 ELSE successful
              /\ failed' = IF r.ret THEN failed ELSE failed + 1
    /\ idx' = idx + 1
    /\ UNCHANGED <<listing, local_repo_names, dry_run, forked_repos, repos_to_migrate,
                   repos_skipped, confirm, pc>>

\* One iteration for a candidate without a 'parent' key: "No parent found".
SkipNoParent ==
    /\ pc = "migrating"
    /\ idx <= Len(repos_to_migrate)
    /\ ParentRepo(repos_to_migrate[idx]) = <<>>
    /\ idx' = idx + 1
    /\ UNCHANGED <<listing, local_repo_names, dry_run, forked_repos, repos_to_migrate,
                   repos_skipped, confirm, successful, failed, gh_calls, pc>>

\* One iteration for a candidate whose 'parent' is null: None.get raises
\* AttributeError, which nothing catches.
RaiseOnNullParent ==
    /\ pc = "migrating"
    /\ idx <= Len(repos_to_migrate)
    /\ ParentRepo(repos_to_migrate[idx]) = <<"AttributeError">>
    /\ pc' = "raised"
    /\ UNCHANGED <<listing, local_repo_names, dry_run, forked_repos, repos_to_migrate,
                   repos_skipped, confirm, idx, successful, failed, gh_calls>>

\* The loop is over: the final summary is printed.
FinalSummary ==
    /\ pc = "migrating"
    /\ idx > Len(repos_to_migrate)
    /\ pc' = "done"
    /\ UNCHANGED <<listing, local_repo_names, dry_run, forked_repos, repos_to_migrate,
                   repos_skipped, confirm, idx, successful, failed, gh_calls>>

----------------------------------------------------------------------------
(* Specifications                                                          *)

IdleParse == url = <<>> /\ url_src = [kind |-> "idle"] /\ repo_info = Unset

IdleScan ==
    /\ fs = [d \in {} |-> [git |-> FALSE, remote |-> None]]
    /\ walk = <<>>
    /\ visited = <<>>
    /\ local_repos = EmptyMap
    /\ scan_pc = "idle"

IdleMigrate ==
    /\ listing = [ok |-> FALSE, repos |-> <<>>]
    /\ local_repo_names = {}
    /\ dry_run = TRUE
    /\ forked_repos = <<>>
    /\ repos_to_migrate = <<>>
    /\ repos_skipped = <<>>
    /\ confirm = "unasked"
    /\ idx = 1
    /\ successful = 0
    /\ failed = 0
    /\ gh_calls = <<>>
    /\ pc = "idle"

\* The fork migrator: migrate_repositories on every listing, local mapping
\* and dry_run flag.
Init == IdleParse /\ IdleScan /\ InitMigrate

Next ==
    \/ GetForks /\ UNCHANGED parseVars /\ UNCHANGED scanVars
    \/ Confirm /\ UNCHANGED parseVars /\ UNCHANGED scanVars
    \/ ForkCandidate /\ UNCHANGED parseVars /\ UNCHANGED scanVars
    \/ SkipNoParent /\ UNCHANGED parseVars /\ UNCHANGED scanVars
    \/ RaiseOnNullParent /\ UNCHANGED parseVars /\ UNCHANGED scanVars
    \/ FinalSummary /\ UNCHANGED parseVars /\ UNCHANGED scanVars

Spec == Init /\ [][Next]_vars

\* The scanner: scan_directory on every directory tree.
InitScanOnly == IdleParse /\ InitScan /\ IdleMigrate

NextScan ==
    \/ ScanVisit /\ UNCHANGED parseVars /\ UNCHANGED migrateVars
    \/ ScanReturn /\ UNCHANGED parseVars /\ UNCHANGED migrateVars

SpecScan == InitScanOnly /\ [][NextScan]_vars

\* parse_github_url applied to every URL of UrlSources.
InitParse ==
    /\ url_src \in UrlSources
    /\ url = BuildUrl(url_src)
    /\ repo_info = Unset
    /\ IdleScan
    /\ IdleMigrate

ParseUrl ==
    /\ repo_info = Unset
    /\ repo_info' = parse_github_url(url)
    /\ UNCHANGED <<url, url_src>>
    /\ UNCHANGED scanVars
    /\ UNCHANGED migrateVars

NextParse == ParseUrl

SpecParse == InitParse /\ [][NextParse]_vars

----------------------------------------------------------------------------
(* Properties of the fork migrator, checked under Spec                     *)

IsForkCall(c) == c.cmd = "fork"

\* The create-fork commands run so far, in order.
ForkCalls == SelectSeq(gh_calls, IsForkCall)

NamesParent(repo) == repo.parent.kind = "object"

\* The candidates of a list that name a parent, in order.
WithParent(candidates) == SelectSeq(candidates, NamesParent)

ParentNames(candidates) ==
    [i \in 1..Len(WithParent(candidates)) |-> WithParent(candidates)[i].parent.nameWithOwner]

Processed == SubSeq(repos_to_migrate, 1, idx - 1)

InSeq(seq, x) == \E i \in 1..Len(seq) : seq[i] = x

Affirmative == {"y", "Y"}

\* C2: without dry_run, a create-fork command is issued only after the
\* prompt was answered 'y' or 'Y'; after any other answer the run is
\* cancelled with no create-fork command, no success and no failure.
C2_ConfirmationGate ==
    ~dry_run =>
        /\ ForkCalls # <<>> => confirm \in Affirmative
        /\ pc \in {"migrating", "done", "raised"} => confirm \in Affirmative
        /\ confirm \notin Affirmative \cup {"unasked"} =>
              /\ pc = "cancelled"
              /\ ForkCalls = <<>>
              /\ successful = 0
              /\ failed = 0

C2_Witness ==
    /\ ~dry_run
    /\ pc = "cancelled"
    /\ confirm = "yes"
    /\ Len(WithParent(repos_to_migrate)) >= 2
    /\ ForkCalls = <<>>

\* C3: a candidate without a parent (the key missing, or its value null)
\* gets no create-fork command, is not counted as a failure, and does not
\* make migrate_repositories raise.
C3_NoParentScenario ==
    /\ pc # "raised"
    /\ Len(ForkCalls) <= Len(WithParent(Processed))
    /\ successful + failed <= Len(WithParent(Processed))

\* C4: when a confirmed migration ends, every candidate that names a parent
\* got exactly one create-fork command, whatever the earlier commands did,
\* and successful + failed is the number of those candidates.
C4_NoRetryNoAbort ==
    (~dry_run /\ pc \in {"done", "raised"}) =>
        /\ Len(ForkCalls) = Len(WithParent(repos_to_migrate))
        /\ \A r \in ForkRecords :
              (NamesParent(r) /\ InSeq(repos_to_migrate, r)) =>
                  Len(SelectSeq(ForkCalls, LAMBDA c : c.repo = r.parent.nameWithOwner)) = 1
        /\ pc = "done" => successful + failed = Len(WithParent(repos_to_migrate))

PositionIn(seq, x) == CHOOSE i \in 1..Len(seq) : seq[i] = x

ForkNames == [i \in 1..Len(forked_repos) |-> forked_repos[i].nameWithOwner]

\* C5: the filter loop partitions the listing: a fork is in repos_skipped iff
\* its nameWithOwner is a key of the local mapping, else it is in
\* repos_to_migrate; each fork is in exactly one list, in listing order.
C5_Partition ==
    /\ Len(repos_to_migrate) + Len(repos_skipped) = Len(forked_repos)
    /\ \A i \in 1..Len(forked_repos) :
          LET r == forked_repos[i]
          IN  /\ InSeq(repos_skipped, r.nameWithOwner) <=> r.nameWithOwner \in local_repo_names
              /\ InSeq(repos_to_migrate, r) <=> r.nameWithOwner \notin local_repo_names
    /\ \A i, j \in 1..Len(repos_to_migrate) :
          i < j => PositionIn(forked_repos, repos_to_migrate[i])
                     < PositionIn(forked_repos, repos_to_migrate[j])
    /\ \A i, j \in 1..Len(repos_skipped) :
          i < j => PositionIn(ForkNames, repos_skipped[i])
                     < PositionIn(ForkNames, repos_skipped[j])

C5_Witness ==
    /\ pc # "start"
    /\ Len(forked_repos) = 3
    /\ local_repo_names = {<<SourceUser, "b">>, <<UpstreamUser, "a">>}
    /\ repos_skipped = <<forked_repos[2].nameWithOwner>>
    /\ repos_to_migrate = <<forked_repos[1], forked_repos[3]>>
    /\ forked_repos[1].nameWithOwner = <<SourceUser, "a">>

\* C6: when a confirmed migration ends, the create-fork commands issued are,
\* in order, the parent identities of the candidates that name a parent,
\* each under the target account's token and never the fork's own identity.
C6_OrderedReplay ==
    (~dry_run /\ pc \in {"done", "raised"}) =>
        /\ [i \in 1..Len(ForkCalls) |-> ForkCalls[i].repo] = ParentNames(repos_to_migrate)
        /\ \A i \in 1..Len(ForkCalls) :
              /\ ForkCalls[i].token = "target"
              /\ ~InSeq(ForkNames, ForkCalls[i].repo)

IsCompleted(c) == c.cmd = "fork" /\ c.outcome # "error"

IsFailed(c) == c.cmd = "fork" /\ c.outcome = "error"

\* C10: without dry_run, 'successful' counts the create-fork commands that
\* completed without error and 'failed' those that exited with an error,
\* whatever they wrote to standard output.
C10_FaithfulSuccess ==
    ~dry_run =>
        /\ successful = Len(SelectSeq(gh_calls, IsCompleted))
        /\ failed = Len(SelectSeq(gh_calls, IsFailed))

----------------------------------------------------------------------------
(* Properties of the scanner, checked under SpecScan                       *)

NotHidden(d) == \A i \in 1..Len(d) : ~StartsWithDot(d[i])

OutsideRepositories(d) == \A p \in Dirs : IsProperPrefix(p, d) => ~fs[p].git

\* The directories the walk is to reach: not in a hidden directory and not
\* below a repository root.
Walked(d) == NotHidden(d) /\ OutsideRepositories(d)

HasIdentity(d) ==
    /\ fs[d].git
    /\ fs[d].remote # None
    /\ parse_github_url(fs[d].remote) # NoInfo

IdentityOf(d) == parse_github_url(fs[d].remote).full_name

\* C7 as stated: every directory with .git and a parseable origin URL is in
\* the mapping under its identity, with path == D.
C7_EveryRepositoryRecorded ==
    scan_pc = "returned" =>
        \A d \in Dirs :
            HasIdentity(d) =>
                /\ IdentityOf(d) \in DOMAIN local_repos
                /\ local_repos[IdentityOf(d)].path = d

\* C7 amended: every directory with .git and a parseable origin URL that is
\* neither in a hidden directory nor below another repository root has its
\* identity as a key of the mapping; the record under that key holds the
\* last visited directory of that identity, which is D when no other walked
\* directory has the same identity.
C7_ScannerCompleteness ==
    scan_pc = "returned" =>
        \A d \in Dirs :
            (Walked(d) /\ HasIdentity(d)) =>
                /\ IdentityOf(d) \in DOMAIN local_repos
                /\ LET same == {e \in Dirs : Walked(e) /\ HasIdentity(e)
                                              /\ IdentityOf(e) = IdentityOf(d)}
                       rec == local_repos[IdentityOf(d)]
                   IN  /\ rec.path \in same
                       /\ rec.url = fs[rec.path].remote
                       /\ \A e \in same : /\ InSeq(visited, e)
                                          /\ PositionIn(visited, e)
                                               <= PositionIn(visited, rec.path)
                       /\ same = {d} => rec.path = d

C7_Witness ==
    /\ scan_pc = "returned"
    /\ HasIdentity(<<DirA>>)
    /\ HasIdentity(<<DirD>>)
    /\ fs[<<DirA>>].remote # fs[<<DirD>>].remote
    /\ IdentityOf(<<DirA>>) = IdentityOf(<<DirD>>)
    /\ DOMAIN local_repos = {IdentityOf(<<DirA>>)}
    /\ visited[Len(visited)] = <<DirA>>
    /\ local_repos[IdentityOf(<<DirA>>)].path = <<DirA>>

\* C8: the walk never visits a directory below a repository root it has
\* visited, whether or not that root produced a record, and no record's
\* path lies strictly inside a visited repository root.
C8_LeafRepository ==
    \A i \in 1..Len(visited) :
        is_git_repository(visited[i]) =>
            /\ \A j \in 1..Len(visited) : ~IsProperPrefix(visited[i], visited[j])
            /\ \A j \in 1..Len(walk) : ~IsProperPrefix(visited[i], walk[j])
            /\ \A k \in DOMAIN local_repos : ~IsProperPrefix(visited[i], local_repos[k].path)

C8_Witness ==
    /\ scan_pc = "returned"
    /\ ~fs[<<>>].git
    /\ fs[<<DirA>>].git
    /\ fs[<<DirA>>].remote = None
    /\ HasIdentity(<<DirA, DirB>>)
    /\ InSeq(visited, <<DirA>>)
    /\ ~InSeq(visited, <<DirA, DirB>>)
    /\ IdentityOf(<<DirA, DirB>>) \notin DOMAIN local_repos

----------------------------------------------------------------------------
(* Properties of parse_github_url, checked under SpecParse                 *)

Expected(src) ==
    [owner |-> src.owner, repo |-> src.name,
     full_name |-> src.owner \o Slash \o src.name]

\* C9 as stated: for every owner and repository name the SSH and HTTPS
\* forms, with or without a trailing '.git', parse to {owner, name}, and a
\* URL of neither form parses to None.
C9_ParseEveryName ==
    repo_info # Unset =>
        IF url_src.kind = "other" THEN repo_info = NoInfo
        ELSE repo_info = Expected(url_src)

\* C9 amended: the same, for every repository name that does not itself end
\* in '.git'.
C9_ParseNormalizes ==
    repo_info # Unset =>
        IF url_src.kind = "other" THEN repo_info = NoInfo
        ELSE ~EndsWith(url_src.name, DotGit) => repo_info = Expected(url_src)

C9_Witness ==
    /\ repo_info # Unset
    /\ url_src.kind = "https"
    /\ url_src.git
    /\ url_src.name = DotGit \o <<"w">>
    /\ repo_info.full_name = url_src.owner \o Slash \o url_src.name
====
